---- MODULE Spec2Model ----
(***************************************************************************)
(* Model of app.py: the response normalizer, the completion invocation and *)
(* the /analyze_job_match request handler.                                 *)
(*                                                                         *)
(* Python values are tagged records (kind = "str", "list", "dict", "num",  *)
(* "bool", "null").  A Python string is a sequence of symbols; a symbol is *)
(* one character or an atomic chunk of text (a word, a dictionary key, a   *)
(* message).  The delimiters and the whitespace the normalizer looks at    *)
(* are always single-character symbols.                                    *)
(***************************************************************************)
EXTENDS Integers, Sequences, FiniteSets, TLC

VARIABLES
    openai_api_key,   \* app.py:14, read once at start-up
    pc,               \* "idle" | "awaiting_completion": where the handler is
    data,             \* analyze_match: the payload of the request in hand
    prompt,           \* analyze_job_match: the prompt built for this request
    attempts,         \* outbound completion calls made for this request
    calls,            \* outbound completion calls made since start-up
    completion,       \* outcome of this request's completion call
    analysis,         \* analyze_match: what analyze_job_match returned
    http_response,    \* what the handler answered to this request
    served,           \* requests received since start-up
    norm_stage,       \* normalizer harness: "input" | "once" | "twice" | "off"
    norm_input,       \* normalizer harness: the argument
    norm_output,      \* normalizer harness: normalize(argument)
    norm_again        \* normalizer harness: normalize(normalize(argument))

service_vars == <<openai_api_key, pc, data, prompt, attempts, calls,
                  completion, analysis, http_response, served>>
norm_vars == <<norm_stage, norm_input, norm_output, norm_again>>
vars == <<service_vars, norm_vars>>

-----------------------------------------------------------------------------
(* Bounds of the model.                                                    *)

\* longest string handed to the normalizer as a field value
MaxStrLen == 3
\* longest list handed to the normalizer as a field value
MaxListLen == 2
\* requests received in one run of the service
MaxRequests == 2

-----------------------------------------------------------------------------
(* Python values.                                                          *)

JStr(s) == [kind |-> "str", s |-> s]
JList(l) == [kind |-> "list", items |-> l]
JDict(f) == [kind |-> "dict", val |-> f]
JNum(n) == [kind |-> "num", n |-> n]
JBool(b) == [kind |-> "bool", b |-> b]
JNull == [kind |-> "null"]

EmptyDict == JDict([k \in {} |-> JNull])

\* a Python str literal such as "data" or 'strengths', as a string value
Lit(k) == <<k>>

\* the outcome of evaluating a Python expression: a value, or an exception
Returned(v) == [exc |-> "", msg |-> <<>>, value |-> v]
Raised(e, m) == [exc |-> e, msg |-> m, value |-> JNull]
Pending == [exc |-> "pending", msg |-> <<>>, value |-> JNull]

\* type(v).__name__
TypeName(v) ==
    CASE v.kind = "str" -> "str"
      [] v.kind = "list" -> "list"
      [] v.kind = "dict" -> "dict"
      [] v.kind = "num" -> "int"
      [] v.kind = "bool" -> "bool"
      [] v.kind = "null" -> "NoneType"

\* bool(v): Python's truth value, as `not data` and `if s.strip()` use it
Truthy(v) ==
    CASE v.kind = "str" -> v.s # <<>>
      [] v.kind = "list" -> v.items # <<>>
      [] v.kind = "dict" -> DOMAIN v.val # {}
      [] v.kind = "num" -> v.n # 0
      [] v.kind = "bool" -> v.b
      [] v.kind = "null" -> FALSE

-----------------------------------------------------------------------------
(* Python string operations.                                               *)

\* str.isspace for one character
IsSpace(c) == c \in {" ", "\n", "\t", "\r"}

RECURSIVE LStrip(_)
LStrip(s) ==
    IF s # <<>> /\ IsSpace(Head(s)) THEN LStrip(Tail(s)) ELSE s

RECURSIVE RStrip(_)
RStrip(s) ==
    IF s # <<>> /\ IsSpace(s[Len(s)]) THEN RStrip(SubSeq(s, 1, Len(s) - 1)) ELSE s

\* s.strip()
Strip(s) == RStrip(LStrip(s))

\* sep in s, for a one-character sep
HasChar(s, sep) == \E i \in 1..Len(s) : s[i] = sep

\* s.split(sep) for a one-character sep: every occurrence cuts, empty pieces kept
RECURSIVE Split(_, _)
Split(s, sep) ==
    IF ~HasChar(s, sep) THEN <<s>>
    ELSE LET i == CHOOSE j \in 1..Len(s) :
                      s[j] = sep /\ \A k \in 1..(j - 1) : s[k] # sep
         IN <<SubSeq(s, 1, i - 1)>> \o Split(SubSeq(s, i + 1, Len(s)), sep)

\* needle in hay, for two strings
IsSubstring(needle, hay) ==
    \E i \in 0..(Len(hay) - Len(needle)) :
        SubSeq(hay, i + 1, i + Len(needle)) = needle

\* [s.strip() for s in pieces if s.strip()], as a list of string values
RECURSIVE StripNonEmpty(_)
StripNonEmpty(pieces) ==
    IF pieces = <<>> THEN <<>>
    ELSE IF Strip(Head(pieces)) # <<>>
         THEN <<JStr(Strip(Head(pieces)))>> \o StripNonEmpty(Tail(pieces))
         ELSE StripNonEmpty(Tail(pieces))

\* repr() of the characters of a string: a line feed is written \n
RECURSIVE ReprChars(_)
ReprChars(s) ==
    IF s = <<>> THEN <<>>
    ELSE (IF Head(s) = "\n" THEN <<"\\n">> ELSE <<Head(s)>>) \o ReprChars(Tail(s))

RECURSIVE PyRepr(_)
RECURSIVE ReprItems(_)
\* ", ".join(repr(x) for x in items)
ReprItems(items) ==
    IF items = <<>> THEN <<>>
    ELSE IF Len(items) = 1 THEN PyRepr(Head(items))
         ELSE PyRepr(Head(items)) \o <<", ">> \o ReprItems(Tail(items))

\* repr(v); a dict is written for the empty dict only, the one the inputs hold
PyRepr(v) ==
    CASE v.kind = "str" -> <<"'">> \o ReprChars(v.s) \o <<"'">>
      [] v.kind = "list" -> <<"[">> \o ReprItems(v.items) \o <<"]">>
      [] v.kind = "dict" /\ DOMAIN v.val = {} -> <<"{", "}">>
      [] v.kind = "num" -> <<ToString(v.n)>>
      [] v.kind = "bool" -> IF v.b THEN <<"True">> ELSE <<"False">>
      [] v.kind = "null" -> <<"None">>

\* str(v)
PyStr(v) == IF v.kind = "str" THEN v.s ELSE PyRepr(v)

-----------------------------------------------------------------------------
(* normalize_analysis_response.                                            *)

ListKeys == {"strengths", "gaps", "recommendations"}
AnalysisKeys == {"match_explanation"} \cup ListKeys

\* key in analysis: dict membership, list membership, substring, or TypeError
PyIn(key, v) ==
    CASE v.kind = "dict" -> Returned(JBool(key \in DOMAIN v.val))
      [] v.kind = "list" ->
            Returned(JBool(\E i \in 1..Len(v.items) : v.items[i] = JStr(Lit(key))))
      [] v.kind = "str" -> Returned(JBool(IsSubstring(Lit(key), v.s)))
      [] OTHER ->
            Raised("TypeError",
                   <<"argument of type '", TypeName(v), "' is not iterable">>)

\* analysis[key] for a str key: the dict's value, or TypeError on a list or str
PyIndex(v, key) ==
    CASE v.kind = "dict" -> Returned(v.val[key])
      [] v.kind = "list" ->
            Raised("TypeError", <<"list indices must be integers or slices, not str">>)
      [] v.kind = "str" ->
            Raised("TypeError", <<"string indices must be integers, not 'str'">>)
      [] OTHER ->
            Raised("TypeError", <<"'", TypeName(v), "' object is not subscriptable">>)

\* lines 32-36: the value of normalized["match_explanation"] for a present field
NormalizeExplanation(v) ==
    IF v.kind = "str" THEN v ELSE JStr(PyStr(v))

\* the cascade with the semicolon tried before the newline
SplitByDelimiter_semicolon_first(s) ==
    IF HasChar(s, ";") THEN StripNonEmpty(Split(s, ";"))
    ELSE IF HasChar(s, "\n") THEN StripNonEmpty(Split(s, "\n"))
    ELSE IF HasChar(s, ",") THEN StripNonEmpty(Split(s, ","))
    ELSE <<JStr(s)>>

\* lines 47-54: the delimiter cascade on a non-blank string
SplitByDelimiter(s) ==
    IF HasChar(s, "\n") THEN StripNonEmpty(Split(s, "\n"))
    ELSE IF HasChar(s, ";") THEN StripNonEmpty(Split(s, ";"))
    ELSE IF HasChar(s, ",") THEN StripNonEmpty(Split(s, ","))
    ELSE <<JStr(s)>>

\* the field with the isinstance(list) branch lost: a list is wrapped as str(list)
NormalizeListField_no_list_branch(v) ==
    IF v.kind = "str"
    THEN IF Strip(v.s) # <<>> THEN JList(SplitByDelimiter(v.s)) ELSE JList(<<>>)
    ELSE JList(<<JStr(PyStr(v))>>)

\* the field with the `if s.strip():` guard lost: a blank string is split too
NormalizeListField_no_blank_guard(v) ==
    IF v.kind = "list" THEN v
    ELSE IF v.kind = "str" THEN JList(SplitByDelimiter(v.s))
    ELSE JList(<<JStr(PyStr(v))>>)

\* lines 40-56 (and 60-75, 79-94): the value of normalized[key] for a present
\* field; a blank string leaves the default [] in place
NormalizeListField(v) ==
    IF v.kind = "list" THEN v
    ELSE IF v.kind = "str"
         THEN IF Strip(v.s) # <<>> THEN JList(SplitByDelimiter(v.s)) ELSE JList(<<>>)
         ELSE JList(<<JStr(PyStr(v))>>)

\* lines 24-29
NormalizedDefaults ==
    [k \in AnalysisKeys |->
        IF k = "match_explanation" THEN JStr(<<>>) ELSE JList(<<>>)]

\* the first exception among the key tests and the subscripts, in source order
FieldOrder == <<"match_explanation", "strengths", "gaps", "recommendations">>

\* one field of the result: `if key in analysis:` then analysis[key]
NormalizeField(a, key) ==
    LET present == PyIn(key, a)
    IN IF present.exc # "" THEN present
       ELSE IF ~present.value.b THEN Returned(NormalizedDefaults[key])
       ELSE LET got == PyIndex(a, key)
            IN IF got.exc # "" THEN got
               ELSE Returned(IF key = "match_explanation"
                             THEN NormalizeExplanation(got.value)
                             ELSE NormalizeListField(got.value))

\* normalize_analysis_response(analysis)
normalize_analysis_response(a) ==
    LET r == [k \in AnalysisKeys |-> NormalizeField(a, k)]
        failed == {i \in 1..Len(FieldOrder) : r[FieldOrder[i]].exc # ""}
    IN IF failed # {}
       THEN r[FieldOrder[CHOOSE i \in failed : \A j \in failed : i <= j]]
       ELSE Returned(JDict([k \in AnalysisKeys |-> r[k].value]))

-----------------------------------------------------------------------------
(* json.loads, as the inverse of the serialization of the values the       *)
(* upstream model may have written.                                        *)

\* the characters of a string inside a JSON text: a line feed is written \n
RECURSIVE JsonChars(_)
JsonChars(s) ==
    IF s = <<>> THEN <<>>
    ELSE (IF Head(s) = "\n" THEN <<"\\n">> ELSE <<Head(s)>>) \o JsonChars(Tail(s))

\* the order in which a JSON object's members are written
MemberOrder == <<"match_explanation", "strengths", "gaps", "recommendations", "extra">>

RECURSIVE Dumps(_)
RECURSIVE DumpsItems(_)
RECURSIVE DumpsMembers(_, _)

DumpsItems(items) ==
    IF items = <<>> THEN <<>>
    ELSE IF Len(items) = 1 THEN Dumps(Head(items))
         ELSE Dumps(Head(items)) \o <<", ">> \o DumpsItems(Tail(items))

DumpsMembers(f, keys) ==
    IF keys = <<>> THEN <<>>
    ELSE IF Head(keys) \notin DOMAIN f THEN DumpsMembers(f, Tail(keys))
    ELSE LET rest == DumpsMembers(f, Tail(keys))
         IN <<"\"", Head(keys), "\"", ": ">> \o Dumps(f[Head(keys)])
                \o (IF rest = <<>> THEN <<>> ELSE <<", ">> \o rest)

\* the JSON text of a value
Dumps(v) ==
    CASE v.kind = "str" -> <<"\"">> \o JsonChars(v.s) \o <<"\"">>
      [] v.kind = "list" -> <<"[">> \o DumpsItems(v.items) \o <<"]">>
      [] v.kind = "dict" -> <<"{">> \o DumpsMembers(v.val, MemberOrder) \o <<"}">>
      [] v.kind = "num" -> <<ToString(v.n)>>
      [] v.kind = "bool" -> IF v.b THEN <<"true">> ELSE <<"false">>
      [] v.kind = "null" -> <<"null">>

\* the mocked completion of the spec's scenario A
ScenarioA ==
    JDict([k \in AnalysisKeys |->
        CASE k = "match_explanation" -> JStr(<<"Good fit">>)
          [] k = "strengths" -> JStr(<<"Python", ";", "SQL">>)
          [] k = "gaps" -> JStr(<<>>)
          [] k = "recommendations" -> JList(<<JStr(<<"Learn Go">>)>>)])

\* values whose JSON text the upstream model may return
ModelOutputs ==
    {ScenarioA,
     EmptyDict,
     JDict([k \in {"match_explanation", "strengths", "gaps"} |->
        CASE k = "match_explanation" -> JNum(5)
          [] k = "strengths" -> JNull
          [] k = "gaps" -> JList(<<JStr(<<"a">>), JNum(1)>>)]),
     JDict([k \in {"strengths", "extra"} |-> JStr(<<"a", "\n", "b", ";", "c">>)]),
     JList(<<>>),
     JList(<<JStr(Lit("match_explanation"))>>),
     JStr(<<"hello">>),
     JStr(<<"no ", "gaps", " found">>),
     JNum(5),
     JBool(TRUE),
     JNull}

\* texts that are not JSON
RawTexts == {<<"Good fit">>, <<>>, <<"{">>, <<"Here is the analysis: ", "{", "}">>}

\* json.loads(content): the value the text is the JSON of, JSONDecodeError for a
\* text that is no JSON, TypeError for a content that is no text
json_loads(content) ==
    IF content.kind # "str"
    THEN Raised("TypeError",
                <<"the JSON object must be str, bytes or bytearray, not ",
                  TypeName(content)>>)
    ELSE IF \E v \in ModelOutputs : Dumps(v) = content.s
         THEN Returned(CHOOSE v \in ModelOutputs : Dumps(v) = content.s)
         ELSE Raised("JSONDecodeError", <<"Expecting value">>)

-----------------------------------------------------------------------------
(* analyze_job_match and analyze_match.                                    *)

\* v.get(key, default)
PyGet(v, key, default) ==
    IF v.kind = "dict"
    THEN Returned(IF key \in DOMAIN v.val THEN v.val[key] ELSE default)
    ELSE Raised("AttributeError",
                <<"'", TypeName(v), "' object has no attribute 'get'">>)

\* {"error": message}
ErrorDict(m) == JDict([k \in {"error"} |-> JStr(m)])

\* line 103
ConfigurationError ==
    ErrorDict(<<"OpenAI API key not configured. Please set the OPENAI_API_KEY environment variable.">>)

\* lines 115-122
JobFields ==
    {"JobTitle", "Required_Skills", "PreferredSkills", "Qualifications",
     "Key_Responsibilities", "Industry", "Role", "JobLocation"}

\* lines 125-140
MemberFields ==
    {"Headline", "TechnicalSkillNames", "OtherSkills", "Experience", "JobTitles",
     "Education", "CommunicationNames", "LeadershipNames", "CriticalThinkingNames",
     "CollaborationNames", "CharacterNames", "CreativityNames",
     "GrowthMindsetNames", "MindfulnessNames", "FortitudeNames", "CityName"}

NoPrompt == [built |-> FALSE]

\* lines 111-168: the prompt, as the values the f-string interpolates; the
\* job posting is read first, and a posting or profile that is no dict raises
BuildPrompt(job_data, member_data, match_percentage) ==
    IF job_data.kind # "dict" THEN PyGet(job_data, "JobTitle", JStr(<<"N/A">>))
    ELSE IF member_data.kind # "dict"
         THEN PyGet(member_data, "Headline", JStr(<<"N/A">>))
    ELSE Returned(
        [built |-> TRUE,
         job |-> [k \in JobFields |->
                    PyStr(PyGet(job_data, k, JStr(<<"N/A">>)).value)],
         member |-> [k \in MemberFields |->
                    PyStr(PyGet(member_data, k, JStr(<<"N/A">>)).value)],
         match_percentage |-> PyStr(match_percentage)])

\* lines 106-168: the members of the payload read, and the prompt built
ReadAndBuild(payload) ==
    LET d == PyGet(payload, "data", EmptyDict)
    IN IF d.exc # "" THEN [step |-> "raise", result |-> d, prompt |-> NoPrompt]
       ELSE LET member_data == PyGet(d.value, "member", EmptyDict)
                job_data == PyGet(d.value, "jobpost", EmptyDict)
                match_percentage == PyGet(d.value, "Matching_Percentage", JNum(0))
            IN IF member_data.exc # ""
               THEN [step |-> "raise", result |-> member_data, prompt |-> NoPrompt]
               ELSE LET p == BuildPrompt(job_data.value, member_data.value,
                                         match_percentage.value)
                    IN IF p.exc # ""
                       THEN [step |-> "raise", result |-> p, prompt |-> NoPrompt]
                       ELSE [step |-> "call", result |-> Pending, prompt |-> p.value]

\* analyze_job_match with the credential test of line 102 lost
PrepareCall_no_credential_check(key, payload) == ReadAndBuild(payload)

\* lines 102-168: analyze_job_match up to the completion call. It returns at
\* once without a credential, raises on a payload it cannot read, or goes on
\* to the call with the prompt built
PrepareCall(key, payload) ==
    IF ~Truthy(key)
    THEN [step |-> "return", result |-> Returned(ConfigurationError), prompt |-> NoPrompt]
    ELSE ReadAndBuild(payload)

\* response.choices[0].message.content
FirstContent(response) ==
    IF response.choices = <<>>
    THEN Raised("IndexError", <<"list index out of range">>)
    ELSE Returned(response.choices[1])

\* lines 189-194
PlainTextAnalysis(content) ==
    JDict([k \in AnalysisKeys |->
        IF k = "match_explanation" THEN content ELSE JList(<<>>)])

\* lines 183-186 without the `except json.JSONDecodeError` clause
ParseCompletion_no_fallback(response) ==
    LET content == FirstContent(response)
    IN IF content.exc # "" THEN content
       ELSE LET loaded == json_loads(content.value)
            IN IF loaded.exc = "" THEN normalize_analysis_response(loaded.value)
               ELSE loaded

\* lines 183-194: the inner try
ParseCompletion(response) ==
    LET content == FirstContent(response)
    IN IF content.exc # "" THEN content
       ELSE LET loaded == json_loads(content.value)
            IN IF loaded.exc = "" THEN normalize_analysis_response(loaded.value)
               ELSE IF loaded.exc = "JSONDecodeError"
                    THEN normalize_analysis_response(PlainTextAnalysis(content.value))
                    ELSE loaded

\* lines 196-197
AnalysisError(e) == ErrorDict(<<"Error analyzing job match: ">> \o e.msg)

\* lines 170-197: what analyze_job_match returns once the call has ended,
\* by an exception (outcome.exc # "") or with a response
FinishAnalysis(outcome) ==
    IF outcome.exc # "" THEN Returned(AnalysisError(outcome))
    ELSE LET parsed == ParseCompletion(outcome.value)
         IN IF parsed.exc # "" THEN Returned(AnalysisError(parsed)) ELSE parsed

\* jsonify(body), status
Http(code, body) == [code |-> code, body |-> body]

NoResponse == Http(0, JNull)

\* line 227
ServerError(e) == Http(500, ErrorDict(e.msg))

\* line 210
BadRequest == Http(400, ErrorDict(<<"Invalid data format. Missing 'data' field.">>))

\* lines 216-224 with an analysis that carries an error answered as a failure
Envelope_error_as_bad_gateway(payload, result) ==
    IF "error" \in DOMAIN result.val
    THEN Http(502, result)
    ELSE Http(200,
              JDict([k \in {"status", "data"} |->
                  IF k = "status" THEN JStr(<<"success">>)
                  ELSE JDict([j \in {"Matching_Percentage", "analysis"} |->
                          IF j = "analysis" THEN result
                          ELSE PyGet(PyGet(payload, "data", EmptyDict).value,
                                     "Matching_Percentage", JNum(0)).value])]))

\* lines 216-224: the envelope around the analysis; reading the percentage
\* raises on a payload, or a data member, that is no dict
Envelope(payload, result) ==
    LET d == PyGet(payload, "data", EmptyDict)
        mp == IF d.exc # "" THEN d ELSE PyGet(d.value, "Matching_Percentage", JNum(0))
    IN IF mp.exc # "" THEN ServerError(mp)
       ELSE Http(200,
                 JDict([k \in {"status", "data"} |->
                     IF k = "status" THEN JStr(<<"success">>)
                     ELSE JDict([j \in {"Matching_Percentage", "analysis"} |->
                             IF j = "analysis" THEN result ELSE mp.value])]))

\* line 209: `not data or "data" not in data`
MissingData(payload) ==
    IF ~Truthy(payload) THEN Returned(JBool(TRUE))
    ELSE LET has == PyIn("data", payload)
         IN IF has.exc # "" THEN has ELSE Returned(JBool(~has.value.b))

-----------------------------------------------------------------------------
(* The service: requests, and the completion calls they make.  Handlers    *)
(* share nothing but openai_api_key, which none of them writes, so the     *)
(* requests are taken one after the other.                                 *)

\* os.getenv("OPENAI_API_KEY"): unset, set to nothing, or set
Credentials == {JNull, JStr(<<>>), JStr(<<"sk-test">>)}

\* a member profile or a job posting as requests carry them, "absent" apart
Profiles == {JDict([k \in {"Headline"} |-> JStr(<<"Engineer">>)]), EmptyDict, JStr(<<"n/a">>)}
Postings == {JDict([k \in {"JobTitle"} |-> JStr(<<"Backend Dev">>)]), EmptyDict, JNull}
Percentages == {JNum(72), JStr(<<"72">>), JNull}

\* the dicts a request may carry under "data": each member present or not
DataDicts ==
    {JDict(f) :
        f \in UNION {
            {g \in [P -> Profiles \cup Postings \cup Percentages] :
                /\ "member" \in P => g["member"] \in Profiles
                /\ "jobpost" \in P => g["jobpost"] \in Postings
                /\ "Matching_Percentage" \in P => g["Matching_Percentage"] \in Percentages}
            : P \in SUBSET {"member", "jobpost", "Matching_Percentage"}}}

\* what a request may carry under "data"
DataValues == DataDicts \cup {JNum(5), JNull, JStr(<<"x">>), JList(<<>>)}

\* request.json: None for a missing body, else any decoded JSON value
Payloads ==
    {JDict([k \in {"data"} |-> d]) : d \in DataValues}
        \cup {JDict([k \in {"data", "trace"} |-> IF k = "data" THEN d ELSE JNum(1)]) :
                 d \in {JDict([j \in {"Matching_Percentage"} |-> JNum(72)]), JNum(5)}}
        \cup {JNull, EmptyDict,
              JDict([k \in {"member"} |-> EmptyDict]),
              JNum(5), JNum(0), JBool(TRUE), JBool(FALSE),
              JStr(<<>>), JStr(<<"hello">>), JStr(<<"no ", "data", " here">>),
              JList(<<>>), JList(<<JNum(1)>>), JList(<<JStr(Lit("data"))>>)}

\* exceptions chat.completions.create may raise
UpstreamErrors ==
    {Raised("APIConnectionError", <<"Connection error.">>),
     Raised("APITimeoutError", <<"Request timed out.">>),
     Raised("RateLimitError", <<"Error code: 429">>)}

\* responses chat.completions.create may return
Responses ==
    {[choices |-> <<JStr(Dumps(v))>>] : v \in ModelOutputs}
        \cup {[choices |-> <<JStr(raw)>>] : raw \in RawTexts}
        \cup {[choices |-> <<JNull>>], [choices |-> <<>>]}

NormOff ==
    /\ norm_stage = "off"
    /\ norm_input = JNull
    /\ norm_output = Pending
    /\ norm_again = Pending

Init ==
    /\ openai_api_key \in Credentials
    /\ pc = "idle"
    /\ data = JNull
    /\ prompt = NoPrompt
    /\ attempts = 0
    /\ calls = 0
    /\ completion = Pending
    /\ analysis = Pending
    /\ http_response = NoResponse
    /\ served = 0
    /\ NormOff

\* analyze_match, from the request to its answer or to the completion call
ReceiveRequest(payload) ==
    /\ pc = "idle"
    /\ served < MaxRequests
    /\ served' = served + 1
    /\ data' = payload
    /\ completion' = Pending
    /\ LET missing == MissingData(payload)
           prep == PrepareCall(openai_api_key, payload)
       IN IF missing.exc # "" \/ missing.value.b
          THEN /\ http_response' =
                      IF missing.exc # "" THEN ServerError(missing) ELSE BadRequest
               /\ analysis' = Pending
               /\ prompt' = NoPrompt
               /\ attempts' = 0
               /\ UNCHANGED <<pc, calls>>
          ELSE IF prep.step = "call"
          THEN /\ pc' = "awaiting_completion"
               /\ prompt' = prep.prompt
               /\ attempts' = 1
               /\ calls' = calls + 1
               /\ analysis' = Pending
               /\ http_response' = NoResponse
          ELSE /\ analysis' = prep.result
               /\ http_response' =
                      IF prep.step = "raise" THEN ServerError(prep.result)
                      ELSE Envelope(payload, prep.result.value)
               /\ prompt' = NoPrompt
               /\ attempts' = 0
               /\ UNCHANGED <<pc, calls>>
    /\ UNCHANGED <<openai_api_key, norm_vars>>

\* the rest of the handler once the call has ended with `outcome`
Finish(outcome) ==
    /\ completion' = outcome
    /\ analysis' = FinishAnalysis(outcome)
    /\ http_response' = Envelope(data, FinishAnalysis(outcome).value)
    /\ pc' = "idle"
    /\ UNCHANGED <<openai_api_key, data, prompt, attempts, calls, served, norm_vars>>

\* the call raised, and is made again
CompletionRaises_retry(e) ==
    /\ pc = "awaiting_completion"
    /\ completion' = e
    /\ attempts' = attempts + 1
    /\ calls' = calls + 1
    /\ UNCHANGED <<openai_api_key, pc, data, prompt, analysis, http_response,
                   served, norm_vars>>

\* chat.completions.create raised: line 196
CompletionRaises(e) ==
    /\ pc = "awaiting_completion"
    /\ Finish(e)

\* chat.completions.create returned: lines 183-194
CompletionReturns(response) ==
    /\ pc = "awaiting_completion"
    /\ Finish(Returned(response))

Next ==
    \/ \E payload \in Payloads : ReceiveRequest(payload)
    \/ \E e \in UpstreamErrors : CompletionRaises(e)
    \/ \E response \in Responses : CompletionReturns(response)

Spec == Init /\ [][Next]_vars

-----------------------------------------------------------------------------
(* The normalizer on its own: every bounded argument, normalized once and  *)
(* then once more.                                                         *)

\* the characters of the strings handed to the normalizer
Alphabet == {"a", " ", "\n", ";", ","}

StringsUpTo(n) == UNION {[1..m -> Alphabet] : m \in 0..n}

\* what a list returned by the upstream model may hold
Elements == {JStr(<<>>), JStr(<<"a">>), JNum(1), JNull}

ListsUpTo(n) == UNION {[1..m -> Elements] : m \in 0..n}

\* values that are neither a string nor a list
OtherValues == {JNum(7), JBool(TRUE), JNull, EmptyDict}

FieldValues ==
    {JStr(s) : s \in StringsUpTo(MaxStrLen)}
        \cup {JList(l) : l \in ListsUpTo(MaxListLen)}
        \cup OtherValues

\* the value the fields beside the varied one carry when present
SideValue == JStr(<<"a", ",", "a">>)

\* f extended with key k bound to v
Bind(f, k, v) == [x \in DOMAIN f \cup {k} |-> IF x = k THEN v ELSE f[x]]

\* dicts with one field ranging over FieldValues (or absent) and any subset of
\* the other three fields present
DictInputs ==
    UNION {
        UNION {
            {JDict([k \in P |-> SideValue])}
                \cup {JDict(Bind([k \in P |-> SideValue], f, v)) : v \in FieldValues}
            : P \in SUBSET (AnalysisKeys \ {f})}
        : f \in AnalysisKeys}

\* decoded values that are not a dict, and a dict with a key the code ignores
StrayInputs ==
    {JList(<<>>), JList(<<JStr(Lit("strengths"))>>), JList(<<JNum(1)>>),
     JStr(<<"a">>), JStr(<<"the ", "gaps", " are">>),
     JNum(5), JBool(TRUE), JNull,
     JDict([k \in {"extra", "gaps"} |-> JStr(<<"a", ";", "a">>)])}

NormInputs == DictInputs \cup StrayInputs

ServiceOff ==
    /\ openai_api_key = JNull
    /\ pc = "off"
    /\ data = JNull
    /\ prompt = NoPrompt
    /\ attempts = 0
    /\ calls = 0
    /\ completion = Pending
    /\ analysis = Pending
    /\ http_response = NoResponse
    /\ served = 0

NormInit ==
    /\ norm_stage = "input"
    /\ norm_input \in NormInputs
    /\ norm_output = Pending
    /\ norm_again = Pending
    /\ ServiceOff

\* normalize_analysis_response(x)
Normalize ==
    /\ norm_stage = "input"
    /\ norm_output' = normalize_analysis_response(norm_input)
    /\ norm_stage' = "once"
    /\ UNCHANGED <<norm_input, norm_again, service_vars>>

\* normalize_analysis_response(normalize_analysis_response(x))
Renormalize ==
    /\ norm_stage = "once"
    /\ norm_output.exc = ""
    /\ norm_again' = normalize_analysis_response(norm_output.value)
    /\ norm_stage' = "twice"
    /\ UNCHANGED <<norm_input, norm_output, service_vars>>

NormNext == Normalize \/ Renormalize

NormSpec == NormInit /\ [][NormNext]_vars

-----------------------------------------------------------------------------
(* Properties of the normalizer.                                           *)

NormReturned == norm_stage # "input" /\ norm_output.exc = ""

\* C1: for every argument, each of strengths, gaps and recommendations of the
\* result is a sequence whose elements are all non-empty strings, never a
\* bare string and never null.
C1_ListFieldsHoldNonEmptyStrings ==
    NormReturned =>
        \A k \in ListKeys :
            LET out == norm_output.value.val[k]
            IN /\ out.kind = "list"
               /\ \A i \in 1..Len(out.items) :
                      out.items[i].kind = "str" /\ out.items[i].s # <<>>

\* the positions at which s is cut when split on d, with both ends
Cuts(s, d) == {0, Len(s) + 1} \cup {i \in 1..Len(s) : s[i] = d}

\* the non-blank positions of the piece of s that starts after the cut p
Inked(s, d, p) ==
    LET q == CHOOSE c \in Cuts(s, d) : c > p /\ \A c2 \in Cuts(s, d) : c2 > p => c <= c2
    IN {i \in (p + 1)..(q - 1) : ~IsSpace(s[i])}

\* the cuts after which a piece with something but blanks starts
KeptCuts(s, d) == {p \in Cuts(s, d) : p <= Len(s) /\ Inked(s, d, p) # {}}

\* the piece after cut p without the blanks around it
Trimmed(s, d, p) ==
    LET I == Inked(s, d, p)
        lo == CHOOSE i \in I : \A j \in I : i <= j
        hi == CHOOSE i \in I : \A j \in I : j <= i
    IN SubSeq(s, lo, hi)

\* items is s cut at every d and at nothing else, every piece trimmed, the
\* blank pieces dropped, the order kept
IsSplitOn(items, s, d) ==
    /\ Len(items) = Cardinality(KeptCuts(s, d))
    /\ \A p \in KeptCuts(s, d) :
           items[1 + Cardinality({p2 \in KeptCuts(s, d) : p2 < p})]
               = JStr(Trimmed(s, d, p))

\* C2: a list field that arrives as a non-blank string is split on exactly one
\* delimiter, the first present of newline, semicolon, comma; each part is
\* trimmed and empty parts are dropped; with none of the three present the
\* whole string is the single element.
C2_SplitOnFirstDelimiterInPriorityOrder ==
    (norm_stage # "input" /\ norm_input.kind = "dict") =>
        \A k \in ListKeys \cap DOMAIN norm_input.val :
            LET v == norm_input.val[k]
                out == norm_output.value.val[k]
            IN (v.kind = "str" /\ \E i \in 1..Len(v.s) : ~IsSpace(v.s[i])) =>
                   /\ norm_output.exc = ""
                   /\ out.kind = "list"
                   /\ IF HasChar(v.s, "\n") THEN IsSplitOn(out.items, v.s, "\n")
                      ELSE IF HasChar(v.s, ";") THEN IsSplitOn(out.items, v.s, ";")
                      ELSE IF HasChar(v.s, ",") THEN IsSplitOn(out.items, v.s, ",")
                      ELSE out.items = <<v>>

\* a string with a newline and a semicolon, split at the newline only
C2_Witness ==
    /\ norm_stage = "once"
    /\ norm_input.kind = "dict"
    /\ "strengths" \in DOMAIN norm_input.val
    /\ norm_input.val["strengths"] = JStr(<<"a", "\n", ";">>)
    /\ norm_output.value.val["strengths"] = JList(<<JStr(<<"a">>), JStr(<<";">>)>>)

\* C8: normalize(normalize(x)) = normalize(x) for every x on which the
\* normalizer returns.
C8_NormalizeIsIdempotent ==
    norm_stage = "twice" => norm_again = norm_output

\* a second pass over a result the first pass had to reshape
C8_Witness ==
    /\ norm_stage = "twice"
    /\ norm_input.kind = "dict"
    /\ "gaps" \in DOMAIN norm_input.val
    /\ norm_input.val["gaps"] = JList(<<JNum(1), JStr(<<>>)>>)
    /\ "match_explanation" \in DOMAIN norm_input.val
    /\ norm_input.val["match_explanation"].kind = "str"
    /\ norm_output.value # norm_input
    /\ norm_again.exc = ""

Blank(s) == \A i \in 1..Len(s) : IsSpace(s[i])

\* C9: an absent match_explanation becomes the empty string; a list field that
\* is absent, empty or a whitespace-only string becomes the empty sequence.
C9_EmptyFieldsTakeTheDefault ==
    NormReturned =>
        /\ norm_input.kind = "dict" =>
              /\ "match_explanation" \notin DOMAIN norm_input.val =>
                     norm_output.value.val["match_explanation"] = JStr(<<>>)
              /\ \A k \in ListKeys :
                     \/ k \in DOMAIN norm_input.val
                            /\ norm_input.val[k] # JList(<<>>)
                            /\ ~(norm_input.val[k].kind = "str" /\ Blank(norm_input.val[k].s))
                     \/ norm_output.value.val[k] = JList(<<>>)
        /\ norm_input.kind # "dict" =>
              /\ norm_output.value.val["match_explanation"] = JStr(<<>>)
              /\ \A k \in ListKeys : norm_output.value.val[k] = JList(<<>>)

\* a whitespace-only string beside an absent explanation
C9_Witness ==
    /\ norm_stage = "once"
    /\ norm_input.kind = "dict"
    /\ "match_explanation" \notin DOMAIN norm_input.val
    /\ "recommendations" \in DOMAIN norm_input.val
    /\ norm_input.val["recommendations"] = JStr(<<" ", "\n">>)
    /\ norm_output.value.val["recommendations"] = JList(<<>>)
    /\ norm_output.value.val["match_explanation"] = JStr(<<>>)

-----------------------------------------------------------------------------
(* Properties of the service.                                              *)

\* the request in hand has been answered
Answered == served > 0 /\ pc = "idle"

\* the payload is a JSON object with a `data` member
HasDataField == data.kind = "dict" /\ "data" \in DOMAIN data.val

\* the body {"status": "success", "data": {"Matching_Percentage": mp, "analysis": a}}
IsEnvelope(body, mp, a) ==
    /\ body.kind = "dict"
    /\ DOMAIN body.val = {"status", "data"}
    /\ body.val["status"] = JStr(<<"success">>)
    /\ body.val["data"].kind = "dict"
    /\ DOMAIN body.val["data"].val = {"Matching_Percentage", "analysis"}
    /\ body.val["data"].val["Matching_Percentage"] = mp
    /\ body.val["data"].val["analysis"] = a

\* an analysis of the shape {"error": <message>}
IsErrorAnalysis(r) ==
    /\ r.exc = ""
    /\ r.value.kind = "dict"
    /\ DOMAIN r.value.val = {"error"}
    /\ r.value.val["error"].kind = "str"

\* C3: a request whose payload is missing, empty or without a `data` field is
\* answered with HTTP 400 and {"error": "Invalid data format. Missing 'data'
\* field."}, whatever the credential and the rest of the payload.
C3_NoDataFieldIsAnswered400 ==
    (Answered /\ (~Truthy(data) \/ ~HasDataField)) =>
        /\ http_response.code = 400
        /\ http_response.body
               = JDict([k \in {"error"} |->
                     JStr(<<"Invalid data format. Missing 'data' field.">>)])

\* the failure touches the analysis only: no credential, or the call failed
AnalysisOnlyFailure ==
    ~Truthy(openai_api_key) \/ completion.exc \notin {"", "pending"}

\* data.Matching_Percentage of the request, 0 when it is absent
RequestedPercentage ==
    LET d == data.val["data"]
    IN IF d.kind = "dict" /\ "Matching_Percentage" \in DOMAIN d.val
       THEN d.val["Matching_Percentage"]
       ELSE JNum(0)

PercentageDelivered ==
    /\ http_response.code = 200
    /\ IsErrorAnalysis(analysis)
    /\ IsEnvelope(http_response.body, RequestedPercentage, analysis.value)

\* C4 as stated: for every request whose payload has a `data` field, a failure
\* of the analysis alone still yields HTTP 200 with the envelope, analysis =
\* {error: message} and the request's Matching_Percentage (0 when absent).
C4_AnyDataFieldStillDelivers ==
    (Answered /\ HasDataField /\ AnalysisOnlyFailure) => PercentageDelivered

\* C4 amended: the same for every request whose payload is an object whose
\* `data` field is itself an object.
C4_DataObjectStillDelivers ==
    (Answered /\ HasDataField /\ data.val["data"].kind = "dict" /\ AnalysisOnlyFailure)
        => PercentageDelivered

\* no credential, and the percentage 72 of the request is in the answer
C4_Witness ==
    /\ Answered
    /\ openai_api_key = JNull
    /\ HasDataField
    /\ data.val["data"].kind = "dict"
    /\ "Matching_Percentage" \in DOMAIN data.val["data"].val
    /\ data.val["data"].val["Matching_Percentage"] = JNum(72)
    /\ http_response.code = 200
    /\ http_response.body.val["data"].val["Matching_Percentage"] = JNum(72)
    /\ "error" \in DOMAIN http_response.body.val["data"].val["analysis"].val

\* the payload passes line 209, so analyze_job_match is called
PassesValidation ==
    Truthy(data) /\ PyIn("data", data) = Returned(JBool(TRUE))

\* C5: without a credential no request, in any sequence of requests, causes a
\* completion call; no prompt is built; every analysis is the configuration
\* error.
C5_NoCallWithoutCredential ==
    ~Truthy(openai_api_key) =>
        /\ calls = 0
        /\ attempts = 0
        /\ pc = "idle"
        /\ completion = Pending
        /\ prompt = [built |-> FALSE]
        /\ (served > 0 /\ PassesValidation) =>
               /\ IsErrorAnalysis(analysis)
               /\ analysis.value.val["error"] =
                      JStr(<<"OpenAI API key not configured. Please set the OPENAI_API_KEY environment variable.">>)

\* the second request in a row short-circuited with the configuration error
C5_Witness ==
    /\ ~Truthy(openai_api_key)
    /\ served = MaxRequests
    /\ PassesValidation
    /\ IsErrorAnalysis(analysis)
    /\ http_response.code = 200
    /\ calls = 0

\* C6: a request makes at most one completion call; a failed call is not made
\* again, and its failure is the analysis {error: message} of the answer.
C6_OneCallNeverRetried ==
    /\ attempts <= 1
    /\ calls <= served
    /\ completion.exc \notin {"", "pending"} =>
           /\ pc = "idle"
           /\ IsErrorAnalysis(analysis)
           /\ analysis.value.val["error"]
                  = JStr(<<"Error analyzing job match: ">> \o completion.msg)
           /\ http_response.code = 200
           /\ http_response.body.val["data"].val["analysis"] = analysis.value

\* a call that timed out, answered after that one attempt
C6_Witness ==
    /\ Answered
    /\ completion.exc = "APITimeoutError"
    /\ attempts = 1
    /\ http_response.code = 200
    /\ IsErrorAnalysis(analysis)

\* the call returned a text
ReturnedText ==
    /\ Answered
    /\ completion.exc = ""
    /\ completion.value.choices # <<>>
    /\ completion.value.choices[1].kind = "str"

\* C7: when the call succeeds and its text is no structured data, the analysis
\* is {match_explanation: the raw text, strengths: [], gaps: [],
\* recommendations: []} and carries no error.
C7_UnparsableTextIsTheExplanation ==
    (ReturnedText /\ completion.value.choices[1].s \in RawTexts) =>
        /\ analysis.exc = ""
        /\ analysis.value.kind = "dict"
        /\ DOMAIN analysis.value.val = AnalysisKeys
        /\ analysis.value.val["match_explanation"] = completion.value.choices[1]
        /\ \A k \in ListKeys : analysis.value.val[k] = JList(<<>>)
        /\ http_response.code = 200
        /\ http_response.body.val["data"].val["analysis"] = analysis.value

\* the plain text "Good fit" came back and is the explanation
C7_Witness ==
    /\ ReturnedText
    /\ completion.value.choices[1] = JStr(<<"Good fit">>)
    /\ analysis.exc = ""
    /\ "match_explanation" \in DOMAIN analysis.value.val
    /\ analysis.value.val["match_explanation"] = JStr(<<"Good fit">>)

\* C10: for every value the completion's text can decode to (an object, but
\* also an array, a string, a number, a boolean or null) the analysis is a
\* typed AnalysisResult with the four fields, not an error result.
C10_AnyDecodedValueIsNormalized ==
    (ReturnedText /\ \E v \in ModelOutputs : Dumps(v) = completion.value.choices[1].s) =>
        /\ analysis.exc = ""
        /\ analysis.value.kind = "dict"
        /\ DOMAIN analysis.value.val = AnalysisKeys
        /\ analysis.value.val["match_explanation"].kind = "str"
        /\ \A k \in ListKeys : analysis.value.val[k].kind = "list"

====
